---- MODULE Spec2Model ----
(***************************************************************************)
(* game-code-normalizer: normalizeCode and normalizeCodes of src/index.js. *)
(*                                                                         *)
(* Text is a sequence of characters, each character a one-character        *)
(* string, except U+0138 (LATIN SMALL LETTER KRA), written Kra.            *)
(* JavaScript values are records of one shape (Value); an optional         *)
(* property is a sequence of length 0 (no such property) or 1.             *)
(***************************************************************************)
EXTENDS Naturals, Sequences, FiniteSets, TLC

VARIABLES
  DEFAULT_PREFIXES,   \* the module-level object of src/index.js:28
  DEFAULT_KEYWORDS,   \* the module-level object of src/index.js:38
  input,              \* the caller's first argument
  config,             \* the caller's config argument (the caller's own record)
  op,                 \* "idle", "normalizeCode" or "normalizeCodes": the last call
  out                 \* the outcome of the last call

vars == <<DEFAULT_PREFIXES, DEFAULT_KEYWORDS, input, config, op, out>>

----------------------------------------------------------------------------
(* Bounds of the model *)

MaxPieces == 2
MaxBatch == 2

----------------------------------------------------------------------------
(* Characters *)

Lower == <<"a","b","c","d","e","f","g","h","i","j","k","l","m",
           "n","o","p","q","r","s","t","u","v","w","x","y","z">>
Upper == <<"A","B","C","D","E","F","G","H","I","J","K","L","M",
           "N","O","P","Q","R","S","T","U","V","W","X","Y","Z">>
Digits == <<"0","1","2","3","4","5","6","7","8","9">>

Range(s) == {s[i] : i \in DOMAIN s}

DigitChars == Range(Digits)

\* U+0138: a lowercase letter (category Ll) with no uppercase mapping.
Kra == "U+0138"

\* What /\s/ and String.prototype.trim treat as white space (the ones modelled).
WhiteSpace == {" ", "\t"}

LowerLetters == Range(Lower)

\* The uppercase form of each of a to z.
UpperOf == [c \in LowerLetters |-> Upper[CHOOSE i \in DOMAIN Lower : Lower[i] = c]]

\* String.prototype.toUpperCase on one character.
ToUpperChar(c) == IF c \in LowerLetters THEN UpperOf[c] ELSE c

AlnumUpper == Range(Upper) \cup Range(Digits)

\* The character class [A-Z0-9].
IsAlnumUpper(c) == c \in AlnumUpper

----------------------------------------------------------------------------
(* Strings *)

RECURSIVE DropLeadingWs(_)
DropLeadingWs(s) ==
  IF s # <<>> /\ Head(s) \in WhiteSpace THEN DropLeadingWs(Tail(s)) ELSE s

RECURSIVE DropTrailingWs(_)
DropTrailingWs(s) ==
  IF s # <<>> /\ s[Len(s)] \in WhiteSpace
    THEN DropTrailingWs(SubSeq(s, 1, Len(s) - 1))
    ELSE s

\* String.prototype.trim
Trim(s) == DropTrailingWs(DropLeadingWs(s))

Separators == WhiteSpace \cup {"-"}

\* The character class [\s-].
IsSeparator(c) == c \in Separators

\* .replace(/[\s-]/, ''): the first separator only
RemoveFirstSeparator(s) ==
  IF \E i \in DOMAIN s : IsSeparator(s[i])
    THEN LET i == CHOOSE i \in DOMAIN s :
                    IsSeparator(s[i]) /\ \A j \in 1..(i - 1) : ~IsSeparator(s[j])
         IN  SubSeq(s, 1, i - 1) \o SubSeq(s, i + 1, Len(s))
    ELSE s

IsNotSeparator(c) == ~IsSeparator(c)

\* .replace(/[\s-]/g, '')
RemoveSeparators(s) == SelectSeq(s, IsNotSeparator)

\* String.prototype.toUpperCase
ToUpperCase(s) == [i \in DOMAIN s |-> ToUpperChar(s[i])]

\* rawCode.trim().replace(/[\s-]/g, '').toUpperCase()
Normalize(rawCode) == ToUpperCase(RemoveSeparators(Trim(rawCode)))

\* String.prototype.includes
Includes(s, p) ==
  \E i \in 1..(Len(s) - Len(p) + 1) : SubSeq(s, i, i + Len(p) - 1) = p

StartsWith(s, p) == Len(s) >= Len(p) /\ SubSeq(s, 1, Len(p)) = p

\* /[^A-Z0-9]/.test(normalized)
HasInvalidChars(normalized) == \E i \in DOMAIN normalized : ~IsAlnumUpper(normalized[i])

RECURSIVE NumberToString(_)
\* String(n) for a non-negative integer
NumberToString(n) ==
  IF n < 10 THEN <<Digits[n + 1]>>
  ELSE NumberToString(n \div 10) \o <<Digits[(n % 10) + 1]>>

----------------------------------------------------------------------------
(* JavaScript values *)

Blank(t) ==
  [t |-> t, s |-> <<>>, n |-> 0, code |-> <<>>, meta |-> <<>>,
   props |-> <<>>, elems |-> <<>>]

Undefined == Blank("undefined")
Null == Blank("null")
Bool(b) == [Blank("boolean") EXCEPT !.n = IF b THEN 1 ELSE 0]
Num(n) == [Blank("number") EXCEPT !.n = n]
Str(s) == [Blank("string") EXCEPT !.s = s]
\* An object literal: code and meta are its own properties when of length 1;
\* props are its other own properties.
Obj(code, meta, props) ==
  [Blank("object") EXCEPT !.code = code, !.meta = meta, !.props = props]
Arr(elems) == [Blank("array") EXCEPT !.elems = elems]

\* ToBoolean: what `v || ''` tests
Truthy(v) ==
  CASE v.t \in {"undefined", "null"} -> FALSE
    [] v.t \in {"boolean", "number"} -> v.n # 0
    [] v.t = "string" -> v.s # <<>>
    [] OTHER -> TRUE

RECURSIVE StringOf(_)
\* String(v)
StringOf(v) ==
  CASE v.t = "undefined" -> <<"u","n","d","e","f","i","n","e","d">>
    [] v.t = "null" -> <<"n","u","l","l">>
    [] v.t = "boolean" ->
         IF v.n = 1 THEN <<"t","r","u","e">> ELSE <<"f","a","l","s","e">>
    [] v.t = "number" -> NumberToString(v.n)
    [] v.t = "string" -> v.s
    [] v.t = "array" ->
         IF v.elems = <<>> THEN <<>>
         ELSE IF Len(v.elems) = 1
           THEN (IF v.elems[1].t \in {"undefined", "null"} THEN <<>>
                 ELSE StringOf(v.elems[1]))
           ELSE StringOf(Arr(<<Head(v.elems)>>)) \o <<",">> \o StringOf(Arr(Tail(v.elems)))
    [] OTHER -> <<"[","o","b","j","e","c","t"," ","O","b","j","e","c","t","]">>

\* input !== null && typeof input === 'object'
IsObjectInput(v) == v.t \in {"object", "array"}

\* input.code and input.meta: a property that is not there reads as undefined
GetCode(v) == IF v.code = <<>> THEN Undefined ELSE v.code[1]
GetMeta(v) == IF v.meta = <<>> THEN Undefined ELSE v.meta[1]

\* v || ''
OrEmpty(v) == IF Truthy(v) THEN v ELSE Str(<<>>)

\* isObjectInput ? String(input.code || '') : String(input || '')
RawCode(inp) ==
  IF IsObjectInput(inp) THEN StringOf(OrEmpty(GetCode(inp)))
  ELSE StringOf(OrEmpty(inp))

\* isObjectInput ? input.meta : undefined
MetaOf(inp) == IF IsObjectInput(inp) THEN GetMeta(inp) ELSE Undefined

----------------------------------------------------------------------------
(* Objects used as ordered mappings: a sequence of entries [k, v] in the    *)
(* order the properties were created.                                       *)

Entry(k, v) == [k |-> k, v |-> v]

\* An array index: a canonical numeric string below 2^32 - 1.
IsArrayIndex(k) ==
  /\ k # <<>>
  /\ \A i \in DOMAIN k : k[i] \in DigitChars
  /\ (Len(k) = 1 \/ k[1] # "0")
  /\ Len(k) <= 9

RECURSIVE ToNumber(_)
ToNumber(k) ==
  IF k = <<>> THEN 0
  ELSE 10 * ToNumber(SubSeq(k, 1, Len(k) - 1))
       + ((CHOOSE d \in DOMAIN Digits : Digits[d] = k[Len(k)]) - 1)

EntryIsIndex(e) == IsArrayIndex(e.k)
EntryIsName(e) == ~IsArrayIndex(e.k)

RECURSIVE SortByIndex(_)
SortByIndex(es) ==
  IF es = <<>> THEN <<>>
  ELSE LET m == CHOOSE i \in DOMAIN es :
                  \A j \in DOMAIN es : ToNumber(es[i].k) <= ToNumber(es[j].k)
       IN  <<es[m]>> \o SortByIndex(SubSeq(es, 1, m - 1) \o SubSeq(es, m + 1, Len(es)))

\* Object.entries / own property order: array indices ascending, then the
\* other keys in creation order.
OwnEntries(obj) ==
  SortByIndex(SelectSeq(obj, EntryIsIndex)) \o SelectSeq(obj, EntryIsName)

\* Setting one property of an object under construction.
PutEntry(obj, e) ==
  IF \E i \in DOMAIN obj : obj[i].k = e.k
    THEN [i \in DOMAIN obj |-> IF obj[i].k = e.k THEN e ELSE obj[i]]
    ELSE Append(obj, e)

RECURSIVE CopyEntries(_, _)
CopyEntries(target, es) ==
  IF es = <<>> THEN target ELSE CopyEntries(PutEntry(target, Head(es)), Tail(es))

\* { ...defaults, ...overrides }: a new object
Spread(defaults, overrides) ==
  CopyEntries(CopyEntries(<<>>, OwnEntries(defaults)), OwnEntries(overrides))

----------------------------------------------------------------------------
(* Default configuration *)

DEFAULT_MIN_LENGTH == 4
DEFAULT_MAX_LENGTH == 16

IKES == <<"I","K","E","S">>
MERR == <<"M","E","R","R">>
STAT == <<"S","T","A","T">>
COIN == <<"C","O","I","N">>
GEM == <<"G","E","M">>
CASH == <<"C","A","S","H">>

\* The object literal of DEFAULT_PREFIXES
InitialPrefixes == <<Entry(IKES, "class_reroll")>>

\* The object literal of DEFAULT_KEYWORDS
InitialKeywords ==
  <<Entry(MERR, "event_reward"), Entry(STAT, "stat_reset"),
    Entry(COIN, "currency"), Entry(GEM, "currency"), Entry(CASH, "currency")>>

----------------------------------------------------------------------------
(* The config argument *)

ConfigOmitted ==
  [t |-> "undefined", minLength |-> <<>>, maxLength |-> <<>>,
   prefixes |-> <<>>, keywords |-> <<>>]
ConfigNull == [ConfigOmitted EXCEPT !.t = "null"]
\* A config record; each option is there (length 1) or not (length 0).
Config(minLength, maxLength, prefixes, keywords) ==
  [t |-> "object", minLength |-> minLength, maxLength |-> maxLength,
   prefixes |-> prefixes, keywords |-> keywords]

\* The default parameter value: config = {}
DefaultParameter(cfg) ==
  IF cfg.t = "undefined" THEN Config(<<>>, <<>>, <<>>, <<>>) ELSE cfg

\* Reading a property of null raises a TypeError.
PropertyReadThrows(cfg) == cfg.t = "null"

\* option ?? fallback
Coalesce(option, fallback) == IF option = <<>> THEN fallback ELSE option[1]

\* ...config.prefixes: spreading undefined copies nothing
SpreadArgument(option) == IF option = <<>> THEN <<>> ELSE option[1]

----------------------------------------------------------------------------
(* Hints *)

PREFIX_TAG == <<"P","R","E","F","I","X",":">>
KEYWORD_TAG == <<"K","E","Y","W","O","R","D",":">>
EVENT_TAG == <<"E","V","E","N","T",":">>
INVALID_CHAR == <<"I","N","V","A","L","I","D",":","C","H","A","R">>
KEYWORD_MERR == KEYWORD_TAG \o MERR
EVENT_MERRY == EVENT_TAG \o <<"M","E","R","R","Y">>

\* One hint for each invalid character.
CharsetHintsPerChar(normalized) ==
  [i \in 1..Cardinality({j \in DOMAIN normalized : ~IsAlnumUpper(normalized[j])})
     |-> INVALID_CHAR]

\* if (hasInvalidChars) hints.push('INVALID:CHAR')
CharsetHints(normalized) ==
  IF HasInvalidChars(normalized) THEN <<INVALID_CHAR>> ELSE <<>>

\* length >= minLength && length <= maxLength
IsLengthValid(length, minLength, maxLength) ==
  length >= minLength /\ length <= maxLength

\* Without the test of an empty text.
IsValidFormatNoEmptyTest(hasInvalidChars, isLengthValid, length) ==
  ~hasInvalidChars /\ isLengthValid

\* !hasInvalidChars && isLengthValid && length > 0
IsValidFormat(hasInvalidChars, isLengthValid, length) ==
  ~hasInvalidChars /\ isLengthValid /\ length > 0

\* The type is set and the hint forgotten.
ScanStepNoHint(st, e, normalized, tag) ==
  IF Includes(normalized, e.k)
    THEN [hints |-> st.hints,
          probableType |-> IF ~st.typeAlreadySet THEN e.v ELSE st.probableType,
          typeAlreadySet |-> TRUE]
    ELSE st

\* The body of one iteration of a pattern loop.
ScanStep(st, e, normalized, tag) ==
  IF Includes(normalized, e.k)
    THEN [hints |-> Append(st.hints, tag \o e.k),
          probableType |-> IF ~st.typeAlreadySet THEN e.v ELSE st.probableType,
          typeAlreadySet |-> TRUE]
    ELSE st

RECURSIVE ScanPatterns(_, _, _, _)
\* for (const [pattern, type] of Object.entries(patterns)) ...
ScanPatterns(st, entries, normalized, tag) ==
  IF entries = <<>> THEN st
  ELSE ScanPatterns(ScanStep(st, Head(entries), normalized, tag),
                    Tail(entries), normalized, tag)

\* hints.indexOf('KEYWORD:MERR'), then hints[index] = 'EVENT:MERRY'
RewriteMerr(hints) ==
  IF \E i \in DOMAIN hints : hints[i] = KEYWORD_MERR
    THEN LET index == CHOOSE i \in DOMAIN hints :
                        hints[i] = KEYWORD_MERR
                        /\ \A j \in 1..(i - 1) : hints[j] # KEYWORD_MERR
         IN  [hints EXCEPT ![index] = EVENT_MERRY]
    ELSE hints

\* A meta that is not given becomes an empty mapping.
MetaFieldDefaulted(meta) ==
  IF meta # Undefined THEN <<meta>> ELSE <<Obj(<<>>, <<>>, <<>>)>>

\* if (meta !== undefined) result.meta = meta
MetaField(meta) == IF meta # Undefined THEN <<meta>> ELSE <<>>

\* Steps 1 to 4 and the result object, for a config that is not null.
BuildResult(inp, cfg, defaultPrefixes, defaultKeywords, now) ==
  LET rawCode == RawCode(inp)
      meta == MetaOf(inp)
      minLength == Coalesce(cfg.minLength, DEFAULT_MIN_LENGTH)
      maxLength == Coalesce(cfg.maxLength, DEFAULT_MAX_LENGTH)
      prefixes == Spread(defaultPrefixes, SpreadArgument(cfg.prefixes))
      keywords == Spread(defaultKeywords, SpreadArgument(cfg.keywords))
      normalized == Normalize(rawCode)
      hints0 == CharsetHints(normalized)
      length == Len(normalized)
      isValidFormat ==
        IsValidFormat(HasInvalidChars(normalized),
                      IsLengthValid(length, minLength, maxLength), length)
      st0 == [hints |-> hints0, probableType |-> "unknown", typeAlreadySet |-> FALSE]
      st1 == ScanPatterns(st0, OwnEntries(prefixes), normalized, PREFIX_TAG)
      st2 == ScanPatterns(st1, OwnEntries(keywords), normalized, KEYWORD_TAG)
  IN  [normalized |-> normalized,
       raw |-> rawCode,
       isValidFormat |-> isValidFormat,
       probableType |-> st2.probableType,
       hints |-> RewriteMerr(st2.hints),
       status |-> "unknown",
       length |-> length,
       createdAt |-> now,
       meta |-> MetaField(meta)]

\* Outcomes of a call
NoOutcome == [kind |-> "none", results |-> <<>>]
Threw == [kind |-> "threw", results |-> <<>>]
Returned(r) == [kind |-> "value", results |-> <<r>>]
ReturnedList(rs) == [kind |-> "list", results |-> rs]

\* function normalizeCode(input, config = {})
normalizeCode(inp, cfg, defaultPrefixes, defaultKeywords, now) ==
  IF PropertyReadThrows(DefaultParameter(cfg)) THEN Threw
  ELSE Returned(BuildResult(inp, DefaultParameter(cfg),
                            defaultPrefixes, defaultKeywords, now))

\* The results in the reverse of the input order.
MapNormalizeReversed(elems, cfg, defaultPrefixes, defaultKeywords, nows) ==
  IF \E i \in DOMAIN elems :
       normalizeCode(elems[i], cfg, defaultPrefixes, defaultKeywords, nows[i]).kind = "threw"
    THEN Threw
    ELSE ReturnedList(
           [i \in DOMAIN elems |->
              normalizeCode(elems[Len(elems) + 1 - i], cfg, defaultPrefixes,
                            defaultKeywords, nows[i]).results[1]])

\* inputs.map(input => normalizeCode(input, config)): an exception of the
\* callback ends the map.
MapNormalize(elems, cfg, defaultPrefixes, defaultKeywords, nows) ==
  IF \E i \in DOMAIN elems :
       normalizeCode(elems[i], cfg, defaultPrefixes, defaultKeywords, nows[i]).kind = "threw"
    THEN Threw
    ELSE ReturnedList(
           [i \in DOMAIN elems |->
              normalizeCode(elems[i], cfg, defaultPrefixes, defaultKeywords,
                            nows[i]).results[1]])

\* function normalizeCodes(inputs, config = {})
normalizeCodes(inputs, cfg, defaultPrefixes, defaultKeywords, nows) ==
  IF inputs.t # "array" THEN ReturnedList(<<>>)
  ELSE MapNormalize(inputs.elems, DefaultParameter(cfg),
                    defaultPrefixes, defaultKeywords, nows)

\* Object.assign(source, overrides): the overrides are written into source.
SpreadSourceAssigned(source, overrides) == CopyEntries(source, OwnEntries(overrides))

\* What { ...source, ...overrides } leaves in source: the spread reads it only.
SpreadSource(source, overrides) == source

----------------------------------------------------------------------------
(* The callers' arguments *)

\* new Date().toISOString(): the clock readings a call can get
Timestamps == {"2025-12-31T12:00:00.000Z", "2025-12-31T12:00:00.001Z"}

\* The readings of n calls in a row: the clock does not go back.
ClockReadings(n) ==
  {[i \in 1..n |-> IF i < k THEN "2025-12-31T12:00:00.000Z"
                             ELSE "2025-12-31T12:00:00.001Z"] : k \in 1..(n + 1)}

XMAS == <<"X","M","A","S">>
BONUS == <<"B","O","N","U","S">>
AB == <<"A","B">>
THIRTY == <<"3","0">>
STAT_RESET == <<"S","T","A","T","-","R","E","S","E","T">>
BAD_CODE == <<"b","a","d"," ","c","o","d","e","!","!">>

\* The pieces the text inputs are made of.
Pieces ==
  { <<"\t", "-", " ">>,
    THIRTY,
    <<"i","k","e","s">>,
    <<"M","e","r","r">>,
    STAT,
    <<"c","a","s","h","g","e","m","c","o","i","n">>,
    <<"!">>,
    <<Kra>>,
    AB,
    XMAS \o BONUS,
    <<"A","B","C","D","E","F","G","H","I","J","K","L","M","N","O","P">> }

RECURSIVE SeqsUpTo(_, _)
\* The sequences of at most n elements of S
SeqsUpTo(S, n) ==
  IF n = 0 THEN {<<>>}
  ELSE LET shorter == SeqsUpTo(S, n - 1)
       IN  shorter \cup {Append(q, x) : q \in shorter, x \in S}

RECURSIVE Concat(_)
Concat(q) == IF q = <<>> THEN <<>> ELSE Head(q) \o Concat(Tail(q))

Texts == {Concat(q) : q \in SeqsUpTo(Pieces, MaxPieces)}

Primitives == {Undefined, Null, Bool(TRUE), Bool(FALSE), Num(0), Num(30)}

EmptyMeta == Obj(<<>>, <<>>, <<>>)
DiscordMeta == Obj(<<>>, <<>>, << <<"source", "discord">> >>)

\* The meta property of a structured input: not there, or there with a value
Metas == {<<>>, <<Undefined>>, <<Null>>, <<EmptyMeta>>, <<DiscordMeta>>}

\* The code property of a structured input
Codes == {<<>>, <<Str(<<>>)>>, <<Str(STAT_RESET)>>, <<Num(30)>>}

Objects == {Obj(c, m, <<>>) : c \in Codes, m \in Metas}

BatchElements ==
  { Str(<<" ">> \o THIRTY \o <<"i","k","e","s">> \o <<" ">>),
    Str(<<"M","e","r","r","i","s","t","m","a","s">>),
    Str(BAD_CODE),
    Null,
    Obj(<<Str(STAT_RESET)>>, <<DiscordMeta>>, <<>>) }

Arrays == {Arr(es) : es \in SeqsUpTo(BatchElements, MaxBatch)}

Values == {Str(t) : t \in Texts} \cup Primitives \cup Objects \cup Arrays

\* config.prefixes and config.keywords as callers write them
CustomPrefixes ==
  { <<>>,
    << <<Entry(IKES, "stat_reset")>> >>,
    << <<Entry(XMAS, "event_reward"), Entry(THIRTY, "promo")>> >> }

CustomKeywords ==
  { <<>>,
    << <<Entry(MERR, "currency")>> >>,
    << <<Entry(BONUS, "currency"), Entry(AB, "promo")>> >> }

customConfig ==
  Config(<<2>>, <<20>>, << <<Entry(XMAS, "event_reward")>> >>,
         << <<Entry(BONUS, "currency")>> >>)

Configs ==
  {ConfigOmitted, ConfigNull, customConfig}
  \cup {Config(mn, mx, <<>>, <<>>) : mn \in {<<>>, <<0>>, <<2>>}, mx \in {<<>>, <<20>>}}
  \cup {Config(<<>>, <<>>, p, k) : p \in CustomPrefixes, k \in CustomKeywords}

----------------------------------------------------------------------------
(* The state machine *)

Init ==
  /\ DEFAULT_PREFIXES = InitialPrefixes
  /\ DEFAULT_KEYWORDS = InitialKeywords
  /\ input \in Values
  /\ config \in Configs
  /\ op = "idle"
  /\ out = NoOutcome

\* A call of normalizeCode(input, config)
NormalizeCodeCall ==
  /\ \E now \in Timestamps :
       out' = normalizeCode(input, config, DEFAULT_PREFIXES, DEFAULT_KEYWORDS, now)
  /\ op' = "normalizeCode"
  /\ DEFAULT_PREFIXES' =
       IF PropertyReadThrows(config) THEN DEFAULT_PREFIXES
       ELSE SpreadSource(DEFAULT_PREFIXES, SpreadArgument(config.prefixes))
  /\ DEFAULT_KEYWORDS' =
       IF PropertyReadThrows(config) THEN DEFAULT_KEYWORDS
       ELSE SpreadSource(DEFAULT_KEYWORDS, SpreadArgument(config.keywords))
  /\ UNCHANGED <<input, config>>

\* A call of normalizeCodes(input, config)
NormalizeCodesCall ==
  /\ \E nows \in ClockReadings(Len(input.elems)) :
       out' = normalizeCodes(input, config, DEFAULT_PREFIXES, DEFAULT_KEYWORDS, nows)
  /\ op' = "normalizeCodes"
  /\ DEFAULT_PREFIXES' =
       IF input.elems = <<>> \/ PropertyReadThrows(config) THEN DEFAULT_PREFIXES
       ELSE SpreadSource(DEFAULT_PREFIXES, SpreadArgument(config.prefixes))
  /\ DEFAULT_KEYWORDS' =
       IF input.elems = <<>> \/ PropertyReadThrows(config) THEN DEFAULT_KEYWORDS
       ELSE SpreadSource(DEFAULT_KEYWORDS, SpreadArgument(config.keywords))
  /\ UNCHANGED <<input, config>>

\* The caller writes the config of its next call.
CallerPicksConfig ==
  /\ op # "idle"
  /\ \E c \in Configs : config' = c
  /\ op' = "idle"
  /\ out' = NoOutcome
  /\ UNCHANGED <<DEFAULT_PREFIXES, DEFAULT_KEYWORDS, input>>

\* The caller takes the input of its next call from testCases.
CallerPicksInput ==
  /\ op # "idle"
  /\ \E v \in BatchElements : input' = v
  /\ op' = "idle"
  /\ out' = NoOutcome
  /\ UNCHANGED <<DEFAULT_PREFIXES, DEFAULT_KEYWORDS, config>>

Next ==
  \/ NormalizeCodeCall
  \/ NormalizeCodesCall
  \/ CallerPicksConfig
  \/ CallerPicksInput

Spec == Init /\ [][Next]_vars

----------------------------------------------------------------------------
(* What the claims speak of *)

\* The last call was normalizeCode and it returned.
CodeReturned == op = "normalizeCode" /\ out.kind = "value"
\* The result of the last normalizeCode call.
TheResult == out.results[1]

\* The options as the caller gave them (none for an omitted config).
GivenMin == IF config.minLength = <<>> THEN 4 ELSE config.minLength[1]
GivenMax == IF config.maxLength = <<>> THEN 16 ELSE config.maxLength[1]
GivenPrefixes == IF config.prefixes = <<>> THEN <<>> ELSE config.prefixes[1]
GivenKeywords == IF config.keywords = <<>> THEN <<>> ELSE config.keywords[1]

HasKey(obj, k) == \E i \in DOMAIN obj : obj[i].k = k
ValueAt(obj, k) == obj[CHOOSE i \in DOMAIN obj : obj[i].k = k].v

\* The configured order as the claims state it: the built-in defaults in
\* their listed order (a caller's pattern with a default's key replaces that
\* default's label), then the patterns the caller added, in the caller's order.
StatedOrder(defaults, given) ==
  LET Added(e) == ~HasKey(defaults, e.k)
  IN  [i \in DOMAIN defaults |->
         IF HasKey(given, defaults[i].k)
           THEN Entry(defaults[i].k, ValueAt(given, defaults[i].k))
           ELSE defaults[i]]
      \o SelectSeq(given, Added)

\* The entries of an order whose pattern occurs in the text.
Occurring(order, text) ==
  LET Occurs(e) == Includes(text, e.k) IN SelectSeq(order, Occurs)

StatedType(text) ==
  LET ps == Occurring(StatedOrder(InitialPrefixes, GivenPrefixes), text)
      ks == Occurring(StatedOrder(InitialKeywords, GivenKeywords), text)
  IN  IF ps # <<>> THEN ps[1].v ELSE IF ks # <<>> THEN ks[1].v ELSE "unknown"

StatedHints(text) ==
  LET ps == Occurring(StatedOrder(InitialPrefixes, GivenPrefixes), text)
      ks == Occurring(StatedOrder(InitialKeywords, GivenKeywords), text)
  IN  [i \in DOMAIN ps |-> PREFIX_TAG \o ps[i].k]
      \o [i \in DOMAIN ks |->
            IF ks[i].k = MERR THEN EVENT_MERRY ELSE KEYWORD_TAG \o ks[i].k]

IsPatternHint(h) ==
  StartsWith(h, PREFIX_TAG) \/ StartsWith(h, KEYWORD_TAG) \/ StartsWith(h, EVENT_TAG)

\* The hints of a result other than INVALID:CHAR.
PatternHints(hints) ==
  LET NotCharset(h) == h # INVALID_CHAR IN SelectSeq(hints, NotCharset)

Count(q, x) == Cardinality({i \in DOMAIN q : q[i] = x})

----------------------------------------------------------------------------
(* C1: normalizeCode never raises and always returns a result record, for   *)
(* every input and for every config that is omitted, undefined, null or a   *)
(* record; a null or undefined input, or a structured input without a code, *)
(* yields raw = "" and normalized = "" with isValidFormat false.            *)
C1_NeverRaises ==
  op = "normalizeCode" =>
    /\ out.kind = "value"
    /\ (input.t \in {"undefined", "null"} \/ (input.t = "object" /\ input.code = <<>>)) =>
         /\ TheResult.raw = <<>>
         /\ TheResult.normalized = <<>>
         /\ ~TheResult.isValidFormat

(* C2: isValidFormat is true exactly when normalized has no character       *)
(* outside [A-Z0-9], its length lies within minLength..maxLength (each      *)
(* falling back on its own to 4 and 16), and the length is positive.        *)
C2_ValidIff ==
  CodeReturned =>
    LET text == TheResult.normalized
    IN  TheResult.isValidFormat <=>
          /\ \A i \in DOMAIN text : text[i] \in Range(Upper) \cup Range(Digits)
          /\ GivenMin <= Len(text) /\ Len(text) <= GivenMax
          /\ Len(text) > 0

\* "AB" is valid under {minLength: 2, maxLength: 20}.
C2_Witness ==
  /\ CodeReturned
  /\ input = Str(AB)
  /\ config = Config(<<2>>, <<20>>, <<>>, <<>>)
  /\ TheResult.isValidFormat
  /\ TheResult.length = 2

(* C3: probableType is the label of the first prefix pattern, in the        *)
(* configured order (defaults as listed, then the caller's additions in the *)
(* caller's order), that occurs in normalized; with no prefix occurring,    *)
(* the label of the first such keyword pattern; otherwise "unknown".        *)
C3_FirstInStatedOrder ==
  CodeReturned => TheResult.probableType = StatedType(TheResult.normalized)

(* C4: the pattern hints are one PREFIX:<p> per configured prefix pattern   *)
(* occurring in normalized, in configured order, then one KEYWORD:<k> per   *)
(* configured keyword pattern occurring, in configured order, KEYWORD:MERR  *)
(* being replaced in place by EVENT:MERRY; no result holds KEYWORD:MERR.    *)
C4_HintsInStatedOrder ==
  CodeReturned =>
    /\ PatternHints(TheResult.hints) = StatedHints(TheResult.normalized)
    /\ Count(TheResult.hints, KEYWORD_MERR) = 0

(* C5: a probableType other than "unknown" comes with at least one PREFIX:, *)
(* KEYWORD: or EVENT: hint; and when no configured pattern occurs in        *)
(* normalized, probableType is "unknown" and there is no such hint.         *)
C5_TypeHasHint ==
  CodeReturned =>
    LET r == TheResult
        keys == {e.k : e \in Range(InitialPrefixes) \cup Range(InitialKeywords)
                               \cup Range(GivenPrefixes) \cup Range(GivenKeywords)}
    IN  /\ r.probableType # "unknown" =>
             \E i \in DOMAIN r.hints : IsPatternHint(r.hints[i])
        /\ (\A k \in keys : ~Includes(r.normalized, k)) =>
             /\ r.probableType = "unknown"
             /\ \A i \in DOMAIN r.hints : r.hints[i] = INVALID_CHAR

\* A keyword sets the type and leaves its hint.
C5_Witness ==
  /\ CodeReturned
  /\ TheResult.probableType = "stat_reset"
  /\ TheResult.hints = <<KEYWORD_TAG \o STAT>>

(* C6, as stated: for a text input, normalized holds no white space, no     *)
(* hyphen and no lowercase letter; INVALID:CHAR is in hints exactly once    *)
(* when normalized has a character outside [A-Z0-9] and not at all          *)
(* otherwise; with INVALID:CHAR present isValidFormat is false.             *)
C6_NoLowercaseAtAll ==
  (CodeReturned /\ input.t = "string") =>
    LET r == TheResult
    IN  /\ \A i \in DOMAIN r.normalized :
             r.normalized[i] \notin WhiteSpace \cup {"-"} \cup Range(Lower) \cup {Kra}
        /\ Count(r.hints, INVALID_CHAR) =
             (IF \E i \in DOMAIN r.normalized :
                   r.normalized[i] \notin Range(Upper) \cup Range(Digits)
                THEN 1 ELSE 0)
        /\ Count(r.hints, INVALID_CHAR) > 0 => ~r.isValidFormat

(* C6, amended: as stated, but the lowercase letters normalized never holds *)
(* are a to z; a lowercase letter with no uppercase form, such as U+0138,   *)
(* stays in normalized and counts as a character outside [A-Z0-9].          *)
C6_NoAsciiLowercase ==
  (CodeReturned /\ input.t = "string") =>
    LET r == TheResult
    IN  /\ \A i \in DOMAIN r.normalized :
             r.normalized[i] \notin WhiteSpace \cup {"-"} \cup Range(Lower)
        /\ Count(r.hints, INVALID_CHAR) =
             (IF \E i \in DOMAIN r.normalized :
                   r.normalized[i] \notin Range(Upper) \cup Range(Digits)
                THEN 1 ELSE 0)
        /\ Count(r.hints, INVALID_CHAR) > 0 => ~r.isValidFormat
        /\ \A i \in DOMAIN input.s :
             input.s[i] = Kra =>
               \E j \in DOMAIN r.normalized : r.normalized[j] = Kra

\* Two characters outside [A-Z0-9], one of them U+0138, and one hint.
C6_Witness ==
  /\ CodeReturned
  /\ input = Str(<<"!", Kra>>)
  /\ TheResult.normalized = <<"!", Kra>>
  /\ TheResult.hints = <<INVALID_CHAR>>
  /\ ~TheResult.isValidFormat

(* C7, as stated: the result has a meta field exactly when the input was a  *)
(* structured record that supplied a meta field; it is then the input's     *)
(* meta unchanged; raw is the text of the code field.                       *)
C7_MetaIffSupplied ==
  CodeReturned =>
    LET r == TheResult
    IN  /\ r.meta # <<>> <=> (input.t = "object" /\ input.meta # <<>>)
        /\ r.meta # <<>> => r.meta = input.meta
        /\ (input.t = "object" /\ input.code # <<>> /\ input.code[1].t = "string") =>
             r.raw = input.code[1].s

(* C7, amended: the result has a meta field exactly when the input was a    *)
(* structured record whose meta field holds a value other than undefined;   *)
(* it is then the input's meta unchanged; raw is the text of the code field.*)
C7_MetaIffDefined ==
  CodeReturned =>
    LET r == TheResult
    IN  /\ r.meta # <<>> <=>
             (input.t = "object" /\ input.meta # <<>> /\ input.meta[1].t # "undefined")
        /\ r.meta # <<>> => r.meta = input.meta
        /\ (input.t = "object" /\ input.code # <<>> /\ input.code[1].t = "string") =>
             r.raw = input.code[1].s

\* An empty mapping stays an empty mapping.
C7_Witness ==
  /\ CodeReturned
  /\ input = Obj(<<Str(STAT_RESET)>>, <<EmptyMeta>>, <<>>)
  /\ TheResult.meta = <<EmptyMeta>>
  /\ TheResult.raw = STAT_RESET

\* A result or list of results without the clock readings.
SansCreatedAt(outcome) ==
  [outcome EXCEPT !.results =
     [i \in DOMAIN outcome.results |-> [outcome.results[i] EXCEPT !.createdAt = ""]]]

(* C8: normalizeCodes returns an empty sequence when inputs is not an       *)
(* array; otherwise a sequence as long as inputs whose i-th element is      *)
(* normalizeCode(inputs[i], config) but for createdAt; an invalid or        *)
(* malformed element has isValidFormat false at its position.  (When        *)
(* normalizeCode raises for an element, so does the batch.)                 *)
C8_BatchIsMap ==
  op = "normalizeCodes" =>
    IF input.t # "array" THEN out = ReturnedList(<<>>)
    ELSE LET each == [i \in DOMAIN input.elems |->
                        normalizeCode(input.elems[i], config, InitialPrefixes,
                                      InitialKeywords, "")]
         IN  IF \E i \in DOMAIN each : each[i].kind = "threw"
               THEN out.kind = "threw"
               ELSE /\ out.kind = "list"
                    /\ Len(out.results) = Len(input.elems)
                    /\ \A i \in DOMAIN input.elems :
                         /\ SansCreatedAt(out).results[i] = each[i].results[1]
                         /\ input.elems[i] \in {Null, Str(BAD_CODE)} =>
                              ~out.results[i].isValidFormat

\* A bad element first, a good one second, each at its place.
C8_Witness ==
  /\ op = "normalizeCodes"
  /\ input = Arr(<<Str(BAD_CODE), Obj(<<Str(STAT_RESET)>>, <<DiscordMeta>>, <<>>)>>)
  /\ out.kind = "list"
  /\ ~out.results[1].isValidFormat
  /\ out.results[2].probableType = "stat_reset"
  /\ out.results[2].isValidFormat

(* C9: for a text input, normalizing the normalized text again gives the    *)
(* same normalized, isValidFormat, probableType, hints and length.          *)
C9_Idempotent ==
  (CodeReturned /\ input.t = "string") =>
    LET r == TheResult
        again == normalizeCode(Str(r.normalized), config, DEFAULT_PREFIXES,
                               DEFAULT_KEYWORDS, r.createdAt)
    IN  /\ again.kind = "value"
        /\ again.results[1].normalized = r.normalized
        /\ again.results[1].isValidFormat = r.isValidFormat
        /\ again.results[1].probableType = r.probableType
        /\ again.results[1].hints = r.hints
        /\ again.results[1].length = r.length

\* Separators in front of a lowercase text.
C9_Witness ==
  /\ CodeReturned
  /\ input = Str(<<"\t", "-", " ">> \o <<"i","k","e","s">>)
  /\ TheResult.normalized = IKES
  /\ TheResult.hints = <<PREFIX_TAG \o IKES>>

\* What the same call returns when it is the first call made.
FirstCall(o, inp, cfg) ==
  IF o = "normalizeCode"
    THEN normalizeCode(inp, cfg, InitialPrefixes, InitialKeywords, "")
    ELSE normalizeCodes(inp, cfg, InitialPrefixes, InitialKeywords,
                        [i \in DOMAIN inp.elems |-> ""])

(* C10: after any sequence of calls the built-in defaults are unchanged     *)
(* (prefixes IKES; keywords MERR, STAT, COIN, GEM, CASH in that order), a   *)
(* call leaves the caller's config record unchanged, and it returns what    *)
(* the same call returns when made first, but for createdAt.                *)
C10_NoLeak ==
  [][ /\ DEFAULT_PREFIXES' = <<Entry(IKES, "class_reroll")>>
      /\ [i \in DOMAIN DEFAULT_KEYWORDS' |-> DEFAULT_KEYWORDS'[i].k]
           = <<MERR, STAT, COIN, GEM, CASH>>
      /\ DEFAULT_KEYWORDS' = InitialKeywords
      /\ op' # "idle" =>
           /\ config' = config
           /\ SansCreatedAt(out') = FirstCall(op', input, config) ]_vars

\* A call without config, made after earlier calls, classifies as at first.
C10_Witness ==
  /\ CodeReturned
  /\ config = ConfigOmitted
  /\ input = Str(<<" ">> \o THIRTY \o <<"i","k","e","s">> \o <<" ">>)
  /\ TheResult.probableType = "class_reroll"
  /\ TheResult.hints = <<PREFIX_TAG \o IKES>>

====
